---- MODULE Spec2Model ----
(***************************************************************************)
(* A state-machine model of sap.py: the audit-log shipping agent that      *)
(* polls the SAP audit API, deduplicates records by SHA-256 fingerprint,   *)
(* appends new records to /opt/sap/logs/audit.txt (rotated to audit.txt.1) *)
(* and forwards each new record over a TCP connection.                     *)
(*                                                                         *)
(* A Python str is a sequence of one-character strings.  All modelled      *)
(* text is ASCII, so str.encode('utf-8') yields one byte per character and *)
(* the same sequence stands for the encoded bytes.                         *)
(***************************************************************************)
EXTENDS Integers, Sequences, FiniteSets, TLC

(* ------------------------------ bounds -------------------------------- *)
\* Record payloads are {"id": 1} .. {"id": MaxRecord}.
MaxRecord == 2
\* Longest list of records one HTTP response carries.
MaxBatch == 2
\* fetch_logs calls made in one behaviour, over all process runs.
MaxFetches == 2
\* Bytes of file that one modelled character stands for: with 10-character
\* lines the 10 MiB threshold is met by exactly two lines.
BytesPerChar == 524288

(* ------------------------- program constants -------------------------- *)
MAX_AUDIT_FILESIZE == 10 * 1024 * 1024
BACKUP_MAX_AGE_SECS == 3600
MAX_RETRIES == 5
\* time_window(24) in main, in seconds
INITIAL_LOOKBACK_SECS == 24 * 3600
\* time.sleep(60) in main
POLL_INTERVAL_SECS == 60

(* --------------------------- pure functions --------------------------- *)
Records == 1 .. MaxRecord

Digits == <<"1", "2", "3", "4", "5", "6", "7", "8", "9">>

Range(s) == {s[i] : i \in 1 .. Len(s)}

\* All lists of records of length 0 .. MaxBatch.
Batches == UNION {[1 .. n -> Records] : n \in 0 .. MaxBatch}

\* json.dumps({"id": r}, ensure_ascii=False)  ->  {"id": r}
json_dumps(log) == <<"{", "\"", "i", "d", "\"", ":", " ", Digits[log], "}">>

\* hashlib.sha256(text.encode('utf-8')).hexdigest(): an ideal hash, two
\* digests are equal exactly when the hashed byte strings are equal.
sha256(text) == [sha256 |-> text]

\* Index of the first "\n" of a non-empty text, or its length if it has none.
FirstLineEnd(text) ==
  IF \E i \in 1 .. Len(text) : text[i] = "\n"
  THEN CHOOSE i \in 1 .. Len(text) :
         /\ text[i] = "\n"
         /\ \A j \in 1 .. (i - 1) : text[j] # "\n"
  ELSE Len(text)

\* `for line in f` on a text file: the lines in order, each with its
\* terminating "\n" kept (an unterminated last line is yielded as it is).
RECURSIVE ReadLines(_)
ReadLines(text) ==
  IF text = <<>> THEN <<>>
  ELSE LET e == FirstLineEnd(text)
       IN <<SubSeq(text, 1, e)>> \o ReadLines(SubSeq(text, e + 1, Len(text)))

\* f.writelines(new_events): the concatenation of the strings.
RECURSIVE Concat(_)
Concat(lines) ==
  IF lines = <<>> THEN <<>> ELSE Head(lines) \o Concat(Tail(lines))

\* A file of the file system: absent, or present with its content.
NoFile == [exists |-> FALSE, data |-> <<>>]
File(text) == [exists |-> TRUE, data |-> text]

\* os.path.getsize
getsize(f) == Len(f.data) * BytesPerChar

\* The fingerprint write_unique_logs computes for a record.
event_hash(log) == sha256(json_dumps(log))

\* The line write_unique_logs queues for the audit file.
AuditLine(log) == json_dumps(log) \o <<"\n">>

\* The fingerprint load_existing_event_hashes computes for a line it read.
LineHash(line) == sha256(line)

load_existing_event_hashes(f) ==
  IF f.exists THEN {LineHash(l) : l \in Range(ReadLines(f.data))} ELSE {}

\* Mutant of IsNew: the membership test is skipped.
IsNew_Always(log, seen) == TRUE

\* `if event_hash not in seen_hashes`
IsNew(log, seen) == event_hash(log) \notin seen

\* Mutant of AddSeen: the fingerprint is never recorded.
AddSeen_Forgets(log, seen) == seen

\* seen_hashes.add(event_hash)
AddSeen(log, seen) == seen \cup {event_hash(log)}

\* Mutant of AppendNewEvent: a record is queued for the audit file only when
\* the forwarder delivered it.
AppendNewEvent_IfDelivered(events, log, fwd) ==
  IF fwd.delivered THEN Append(events, json_dumps(log) \o <<"\n">>) ELSE events

\* new_events.append(json_line + '\n'); the forwarder's outcome `fwd` is not
\* consulted by the code.
AppendNewEvent(events, log, fwd) == Append(events, AuditLine(log))

\* Mutant of TcpSend: after a failed sendall the socket is kept, not closed
\* and set to None.
TcpSend_KeepsBrokenSocket(sock, connect_ok, sendall_ok) ==
  LET connected == sock \/ connect_ok
  IN [sock |-> connected,
      connects |-> IF sock THEN 0 ELSE 1,
      transmits |-> IF connected THEN 1 ELSE 0,
      delivered |-> connected /\ sendall_ok]

\* TcpLogSender.send on a sender whose socket is present (sock = TRUE) or
\* None (sock = FALSE); connect_ok and sendall_ok are the network's answers.
TcpSend(sock, connect_ok, sendall_ok) ==
  LET connects == IF sock THEN 0 ELSE 1
      sock1 == IF sock THEN TRUE ELSE connect_ok
      delivered == sock1 /\ sendall_ok
  IN [sock |-> delivered,
      connects |-> connects,
      transmits |-> IF sock1 THEN 1 ELSE 0,
      delivered |-> delivered]

\* Mutant of BackupExpired: a backup of exactly the maximum age expires too.
BackupExpired_Inclusive(backup_age) == backup_age >= BACKUP_MAX_AGE_SECS

\* `backup_age > BACKUP_MAX_AGE_SECS`
BackupExpired(backup_age) == backup_age > BACKUP_MAX_AGE_SECS

\* Mutant of RotationDue: a file of exactly the threshold size is not rotated.
RotationDue_Strict(f) == f.exists /\ Len(f.data) * BytesPerChar > MAX_AUDIT_FILESIZE

\* `os.path.exists(audit_filename) and os.path.getsize(audit_filename) >= ...`
RotationDue(f) == f.exists /\ getsize(f) >= MAX_AUDIT_FILESIZE

\* The file-system calls of rotate_audit_file that can raise.
FsFailPoints ==
  {"none", "getmtime", "remove_expired", "getsize", "remove_backup", "rename"}

\* Mutant of rotate_audit_file: a rename that raises has already taken the
\* audit file away.
rotate_audit_file_LossyRename(a, b, backup_age, fail) ==
  LET expired == b.exists /\ backup_age > BACKUP_MAX_AGE_SECS
      b1 == IF expired THEN NoFile ELSE b
      due == a.exists /\ Len(a.data) * BytesPerChar >= MAX_AUDIT_FILESIZE
  IN IF b.exists /\ (fail = "getmtime" \/ (expired /\ fail = "remove_expired"))
       THEN [audit |-> a, backup |-> b, raised |-> TRUE, renamed |-> FALSE]
     ELSE IF a.exists /\ fail = "getsize"
       THEN [audit |-> a, backup |-> b1, raised |-> TRUE, renamed |-> FALSE]
     ELSE IF ~due
       THEN [audit |-> a, backup |-> b1, raised |-> FALSE, renamed |-> FALSE]
     ELSE IF b1.exists /\ fail = "remove_backup"
       THEN [audit |-> a, backup |-> b1, raised |-> TRUE, renamed |-> FALSE]
     ELSE IF fail = "rename"
       THEN [audit |-> NoFile, backup |-> NoFile, raised |-> TRUE, renamed |-> FALSE]
     ELSE [audit |-> NoFile, backup |-> a, raised |-> FALSE, renamed |-> TRUE]

\* rotate_audit_file: the files it leaves, given the age it reads for the
\* backup and the call (if any) that raises; every exception is swallowed.
rotate_audit_file(a, b, backup_age, fail) ==
  LET expired == b.exists /\ BackupExpired(backup_age)
      raise1 == b.exists /\ (fail = "getmtime" \/ (expired /\ fail = "remove_expired"))
      b1 == IF expired THEN NoFile ELSE b
      raise2 == a.exists /\ fail = "getsize"
  IN IF raise1 THEN [audit |-> a, backup |-> b, raised |-> TRUE, renamed |-> FALSE]
     ELSE IF raise2 THEN [audit |-> a, backup |-> b1, raised |-> TRUE, renamed |-> FALSE]
     ELSE IF ~RotationDue(a)
       THEN [audit |-> a, backup |-> b1, raised |-> FALSE, renamed |-> FALSE]
     ELSE IF b1.exists /\ fail = "remove_backup"
       THEN [audit |-> a, backup |-> b1, raised |-> TRUE, renamed |-> FALSE]
     ELSE IF fail = "rename"
       THEN [audit |-> a, backup |-> NoFile, raised |-> TRUE, renamed |-> FALSE]
     ELSE [audit |-> NoFile, backup |-> a, raised |-> FALSE, renamed |-> TRUE]

\* The value fetch_logs returns: None, or a list.
ResultNone == [ok |-> FALSE, list |-> <<>>]
ResultList(l) == [ok |-> TRUE, list |-> l]

\* Mutant of Backoff: the delay grows linearly with the attempt.
Backoff_Linear(k) == 2 * k

\* `backoff = 2 ** attempt`
Backoff(k) == 2 ^ k

\* Mutant of HasNextAttempt: the loop runs one iteration too many.
HasNextAttempt_OffByOne(k) == k <= MAX_RETRIES

\* `for attempt in range(1, MAX_RETRIES + 1)`: is there another iteration?
HasNextAttempt(k) == k < MAX_RETRIES

\* What one HTTP attempt can produce.
FetchOutcomes ==
  {"list", "empty_body", "non_list", "timeout", "http_error", "json_error"}

\* response.json() on an unparseable body raises json.JSONDecodeError with
\* requests < 2.27 and requests.exceptions.JSONDecodeError, a subclass of
\* RequestException, from requests 2.27 on; the first matching except clause
\* of fetch_logs handles it.
JsonErrorClauses == {"RequestException", "JSONDecodeError"}

\* One iteration of the retry loop of fetch_logs at attempt k: does the call
\* return, with what, and how long does it sleep before going on.
FetchReturn(r) == [returns |-> TRUE, result |-> r, sleep |-> 0]

\* The fall-through of an except clause: sleep 2 ** attempt, then the next
\* iteration, or the end of the loop and `return None`.
FetchRetry(k) ==
  [returns |-> ~HasNextAttempt(k), result |-> ResultNone, sleep |-> Backoff(k)]

\* `except requests.RequestException`
OnRequestException(k) ==
  IF k = MAX_RETRIES THEN FetchReturn(ResultNone) ELSE FetchRetry(k)

\* `except requests.exceptions.Timeout`
OnTimeout(k) == FetchRetry(k)

\* `except json.JSONDecodeError`
OnJSONDecodeError(k) == FetchReturn(ResultNone)

\* `return []` for an empty body
OnEmptyBody == FetchReturn(ResultList(<<>>))

fetch_attempt(k, outcome, clause, batch) ==
  CASE outcome = "list" -> FetchReturn(ResultList(batch))
    [] outcome = "empty_body" -> OnEmptyBody
    [] outcome = "non_list" -> FetchReturn(ResultList(<<>>))
    [] outcome = "timeout" -> OnTimeout(k)
    [] outcome = "http_error" -> OnRequestException(k)
    [] outcome = "json_error" ->
         IF clause = "RequestException" THEN OnRequestException(k)
         ELSE OnJSONDecodeError(k)

\* Mutant of NextLastEnd: the window boundary advances only when the fetch
\* returned a list.
NextLastEnd_OnSuccessOnly(last, window_end, result) ==
  IF result.ok THEN window_end ELSE last

\* main, lines 235 and 249: last_end_dt after a cycle whose window ended at
\* `window_end` and whose fetch returned `result`.
NextLastEnd(last, window_end, result) == window_end

\* Mutant of CallsWrite: the result of fetch_logs is handed to
\* write_unique_logs without being tested.
CallsWrite_Unchecked(ph, result) == TRUE

\* main: is write_unique_logs called with what fetch_logs returned?  The
\* initial fetch tests `logs is None`, the loop tests `elif logs_new:`.
CallsWrite(ph, result) ==
  result.ok /\ (ph = "initial" \/ result.list # <<>>)

\* Ages (seconds) the rotation can read for the backup file.
BackupAges == {BACKUP_MAX_AGE_SECS, BACKUP_MAX_AGE_SECS + 1}

\* What a reading of the wall clock can show one poll interval later: the
\* interval has passed, or the clock has been set back meanwhile.
ClockReadings(c) == {c + POLL_INTERVAL_SECS, c - POLL_INTERVAL_SECS}

\* The log directory the first run can find: empty, or holding only the
\* backup that an earlier rotation of a two-line audit file left.
InitialFileSystems ==
  {[audit |-> NoFile, backup |-> NoFile],
   [audit |-> NoFile, backup |-> File(AuditLine(1) \o AuditLine(2))]}

(* ------------------------------- state -------------------------------- *)
VARIABLES
  fetches,      \* fetch_logs calls entered so far, over all process runs
  pc,           \* position of the process in main
  phase,        \* "initial": before the try block of main; "steady": in it
  audit,        \* the file audit_filename
  backup,       \* the file backup_filename
  rotated,      \* has any run renamed the audit file to the backup
  seen_hashes,  \* main's seen_hashes
  sock,         \* tcp_sender.sock is a socket (TRUE) or None (FALSE)
  clock,        \* the wall clock, seconds
  start_dt,     \* window start of the current fetch call
  end_dt,       \* window end of the current fetch call (`now` in the loop)
  last_end_dt,  \* main's last_end_dt
  prev_end,     \* window end of this run's previous fetch call
  ncalls,       \* fetch_logs calls this run has entered
  clock_back,   \* has the clock been set back during this run
  attempt,      \* fetch_logs: the loop variable
  requests_made,\* fetch_logs: requests.get calls made by the current call
  slept,        \* fetch_logs: seconds of backoff slept by the current call
  last_outcome, \* fetch_logs: what the latest attempt produced
  logs,         \* what fetch_logs returned
  idx,          \* write_unique_logs: position of the loop in logs
  new_events,   \* write_unique_logs: new_events
  rot,          \* the rotate_audit_file call that has just returned: the files
                \* it found, the backup age it read, whether a call raised
  batch0,       \* the audit file and the seen-set when the dedup loop was entered
  fwd,          \* tcp_sender.send calls made by the current write_unique_logs
  sent,         \* the tcp_sender.send call that has just returned: what it was
                \* given, what it found, what the network answered, what it did
  admitted,     \* records this run admitted as new, in order
  run_start_lines \* lines of the audit file when this run replayed it

vars == <<fetches, pc, phase, audit, backup, rotated, seen_hashes, sock,
          clock, start_dt, end_dt, last_end_dt, prev_end, ncalls,
          clock_back, attempt, requests_made, slept, last_outcome, logs, idx, new_events,
          rot, batch0, fwd, sent, admitted, run_start_lines>>

files == <<audit, backup, rotated>>
timeVars ==
  <<clock, start_dt, end_dt, last_end_dt, prev_end, ncalls, clock_back>>
fetchVars == <<attempt, requests_made, slept, last_outcome, logs>>
batchVars == <<idx, new_events, rot, batch0, fwd, sent>>

NoRotation == [audit |-> NoFile, backup |-> NoFile, age |-> 0, raised |-> FALSE]
NoBatch ==
  [entered |-> FALSE, audit |-> NoFile, seen |-> {}, nadmitted |-> 0,
   raised |-> FALSE]
NoFwd == [calls |-> 0, down |-> TRUE]
NoSend ==
  [called |-> FALSE, in_file |-> FALSE, had_sock |-> FALSE,
   connect_ok |-> FALSE, sendall_ok |-> FALSE, connects |-> 0, transmits |-> 0]

Running ==
  {"load", "fetch", "fetched", "rotate", "rotated", "dedup", "advance", "sleep"}
Stopped == {"exited", "killed", "crashed"}

\* The wall clock when a process starts (instants are seconds from an origin
\* one lookback before it; only differences of instants matter).
StartClock == INITIAL_LOOKBACK_SECS

\* The memory of a process that has not entered main yet, or has ended.
FreshMemory ==
  /\ phase' = "initial"
  /\ seen_hashes' = {}
  /\ clock' = StartClock
  /\ start_dt' = 0
  /\ end_dt' = 0
  /\ last_end_dt' = 0
  /\ prev_end' = 0
  /\ ncalls' = 0
  /\ clock_back' = FALSE
  /\ attempt' = 0
  /\ requests_made' = 0
  /\ slept' = 0
  /\ last_outcome' = "none"
  /\ logs' = ResultNone
  /\ idx' = 0
  /\ new_events' = <<>>
  /\ rot' = NoRotation
  /\ batch0' = NoBatch
  /\ fwd' = NoFwd
  /\ sent' = NoSend
  /\ admitted' = <<>>
  /\ run_start_lines' = {}

\* The process ends: `how` says which way, its memory is gone, and the
\* forwarder's connection is as the code left it.
ProcessEnds(how, connected) ==
  /\ pc' = how
  /\ sock' = connected
  /\ FreshMemory
  /\ UNCHANGED <<fetches, files>>

Init ==
  /\ fetches = 0
  /\ pc = "load"
  /\ phase = "initial"
  /\ \E fs \in InitialFileSystems :
       /\ audit = fs.audit
       /\ backup = fs.backup
  /\ rotated = FALSE
  /\ seen_hashes = {}
  /\ sock \in BOOLEAN
  /\ clock = StartClock
  /\ start_dt = 0
  /\ end_dt = 0
  /\ last_end_dt = 0
  /\ prev_end = 0
  /\ ncalls = 0
  /\ clock_back = FALSE
  /\ attempt = 0
  /\ requests_made = 0
  /\ slept = 0
  /\ last_outcome = "none"
  /\ logs = ResultNone
  /\ idx = 0
  /\ new_events = <<>>
  /\ rot = NoRotation
  /\ batch0 = NoBatch
  /\ fwd = NoFwd
  /\ sent = NoSend
  /\ admitted = <<>>
  /\ run_start_lines = {}

(* ------------------------------ actions ------------------------------- *)
\* main, lines 225-227: replay the audit file into seen_hashes, take the
\* 24-hour window and enter the initial fetch_logs call; `budget` is the
\* number of fetch_logs calls a behaviour may enter.
MainStartWithin(budget) ==
  /\ pc = "load"
  /\ fetches < budget
  /\ fetches' = fetches + 1
  /\ seen_hashes' = load_existing_event_hashes(audit)
  /\ run_start_lines' = IF audit.exists THEN Range(ReadLines(audit.data)) ELSE {}
  /\ start_dt' = clock - INITIAL_LOOKBACK_SECS
  /\ end_dt' = clock
  /\ ncalls' = 1
  /\ attempt' = 1
  /\ requests_made' = 0
  /\ slept' = 0
  /\ last_outcome' = "none"
  /\ pc' = "fetch"
  /\ UNCHANGED <<phase, files, sock, clock, last_end_dt, prev_end, clock_back,
                 logs, batchVars, admitted>>

MainStart == MainStartWithin(MaxFetches)

\* load_existing_event_hashes catches FileNotFoundError only: any other error
\* of open or of reading the existing file leaves main as an exception.
LoadFails ==
  /\ pc = "load"
  /\ audit.exists
  /\ ProcessEnds("crashed", sock)

\* fetch_logs: one iteration of the retry loop, its backoff sleep included.
FetchAttempt ==
  /\ pc = "fetch"
  /\ \E outcome \in FetchOutcomes :
     \E clause \in (IF outcome = "json_error" THEN JsonErrorClauses
                    ELSE {"RequestException"}) :
     \E batch \in (IF outcome = "list" THEN Batches ELSE {<<>>}) :
       LET r == fetch_attempt(attempt, outcome, clause, batch)
       IN /\ requests_made' = requests_made + 1
          /\ last_outcome' = outcome
          /\ slept' = slept + r.sleep
          /\ IF r.returns
             THEN /\ pc' = "fetched"
                  /\ logs' = r.result
                  /\ attempt' = attempt
             ELSE /\ pc' = "fetch"
                  /\ logs' = logs
                  /\ attempt' = attempt + 1
  /\ UNCHANGED <<fetches, phase, files, seen_hashes, sock, timeVars,
                 batchVars, admitted, run_start_lines>>

\* main, lines 229-233 and 242-248: what is done with the fetch result.
Dispatch ==
  /\ pc = "fetched"
  /\ pc' = IF CallsWrite(phase, logs) THEN "rotate" ELSE "advance"
  /\ attempt' = 0
  /\ requests_made' = 0
  /\ slept' = 0
  /\ last_outcome' = "none"
  /\ UNCHANGED <<fetches, phase, files, seen_hashes, sock, timeVars, logs,
                 batchVars, admitted, run_start_lines>>

\* write_unique_logs, line 205: the whole rotate_audit_file call.
RotateAuditFile ==
  /\ pc = "rotate"
  /\ \E age \in BackupAges, fail \in FsFailPoints :
       LET r == rotate_audit_file(audit, backup, age, fail)
       IN /\ audit' = r.audit
          /\ backup' = r.backup
          /\ rotated' = (rotated \/ r.renamed)
          /\ rot' = [audit |-> audit, backup |-> backup, age |-> age,
                     raised |-> r.raised]
  /\ pc' = "rotated"
  /\ UNCHANGED <<fetches, phase, seen_hashes, sock, timeVars, fetchVars,
                 idx, new_events, batch0, fwd, sent, admitted, run_start_lines>>

\* Mutant of EnterLoop: the seen-set is rebuilt from the audit file each time
\* the loop is entered.
EnterLoop_ReloadsSeen ==
  /\ pc = "rotated"
  /\ idx' = 1
  /\ new_events' = <<>>
  /\ rot' = NoRotation
  /\ seen_hashes' = load_existing_event_hashes(audit)
  /\ batch0' = [entered |-> TRUE, audit |-> audit,
                seen |-> load_existing_event_hashes(audit),
                nadmitted |-> Len(admitted), raised |-> rot.raised]
  /\ fwd' = NoFwd
  /\ sent' = NoSend
  /\ pc' = "dedup"
  /\ UNCHANGED <<fetches, phase, files, sock, timeVars, fetchVars, admitted,
                 run_start_lines>>

\* write_unique_logs, lines 207-208: `new_events = []` and the loop is entered.
EnterLoop ==
  /\ pc = "rotated"
  /\ idx' = 1
  /\ new_events' = <<>>
  /\ rot' = NoRotation
  /\ batch0' = [entered |-> TRUE, audit |-> audit, seen |-> seen_hashes,
                nadmitted |-> Len(admitted), raised |-> rot.raised]
  /\ fwd' = NoFwd
  /\ sent' = NoSend
  /\ pc' = "dedup"
  /\ UNCHANGED <<fetches, phase, files, seen_hashes, sock, timeVars, fetchVars,
                 admitted, run_start_lines>>

\* write_unique_logs, lines 208-214, for a record whose fingerprint is new.
AdmitRecord ==
  /\ pc = "dedup"
  /\ idx <= Len(logs.list)
  /\ IsNew(logs.list[idx], seen_hashes)
  /\ \E connect_ok \in BOOLEAN, sendall_ok \in BOOLEAN :
       LET log == logs.list[idx]
           s == TcpSend(sock, connect_ok, sendall_ok)
       IN /\ seen_hashes' = AddSeen(log, seen_hashes)
          /\ sock' = s.sock
          /\ new_events' = AppendNewEvent(new_events, log, s)
          /\ admitted' = Append(admitted, log)
          /\ fwd' = [calls |-> fwd.calls + 1,
                     down |-> fwd.down /\ s.connects = 1 /\ s.transmits = 0]
          /\ sent' = [called |-> TRUE,
                      in_file |-> AuditLine(log) \in Range(ReadLines(audit.data)),
                      had_sock |-> sock,
                      connect_ok |-> connect_ok,
                      sendall_ok |-> sendall_ok,
                      connects |-> s.connects,
                      transmits |-> s.transmits]
  /\ idx' = idx + 1
  /\ UNCHANGED <<fetches, pc, phase, files, timeVars, fetchVars, rot, batch0,
                 run_start_lines>>

\* write_unique_logs, lines 208-211, for a record whose fingerprint is seen.
SkipDuplicate ==
  /\ pc = "dedup"
  /\ idx <= Len(logs.list)
  /\ ~IsNew(logs.list[idx], seen_hashes)
  /\ idx' = idx + 1
  /\ sent' = NoSend
  /\ UNCHANGED <<fetches, pc, phase, files, seen_hashes, sock, timeVars,
                 fetchVars, new_events, rot, batch0, fwd, admitted,
                 run_start_lines>>

\* write_unique_logs, lines 216-221: append the queued lines, if any.
WriteNewEvents ==
  /\ pc = "dedup"
  /\ idx > Len(logs.list)
  /\ audit' = IF new_events # <<>>
              THEN File(audit.data \o Concat(new_events))
              ELSE audit
  /\ pc' = "advance"
  /\ sent' = NoSend
  /\ UNCHANGED <<fetches, phase, backup, rotated, seen_hashes, sock, timeVars,
                 fetchVars, idx, new_events, rot, batch0, fwd, admitted,
                 run_start_lines>>

\* write_unique_logs, line 217: open(filename, 'a') or the write raises; no
\* caller catches it.
WriteFails ==
  /\ pc = "dedup"
  /\ idx > Len(logs.list)
  /\ new_events # <<>>
  /\ ProcessEnds("crashed", sock)

\* main, line 235 (after the initial fetch) and line 249 (in the loop).
AdvanceWindow ==
  /\ pc = "advance"
  /\ last_end_dt' = NextLastEnd(last_end_dt, end_dt, logs)
  /\ phase' = "steady"
  /\ pc' = "sleep"
  /\ logs' = ResultNone
  /\ idx' = 0
  /\ new_events' = <<>>
  /\ rot' = NoRotation
  /\ batch0' = NoBatch
  /\ fwd' = NoFwd
  /\ sent' = NoSend
  /\ UNCHANGED <<fetches, files, seen_hashes, sock, clock, start_dt, end_dt,
                 prev_end, ncalls, clock_back, attempt, requests_made, slept,
                 last_outcome, admitted, run_start_lines>>

\* main, lines 239-241: sleep, read the clock, enter fetch_logs(last_end_dt, now).
SleepAndPollWithin(budget) ==
  /\ pc = "sleep"
  /\ fetches < budget
  /\ fetches' = fetches + 1
  /\ \E now \in ClockReadings(clock) :
       /\ clock' = now
       /\ clock_back' = (clock_back \/ now < clock)
       /\ start_dt' = last_end_dt
       /\ end_dt' = now
  /\ prev_end' = end_dt
  /\ ncalls' = ncalls + 1
  /\ attempt' = 1
  /\ requests_made' = 0
  /\ slept' = 0
  /\ last_outcome' = "none"
  /\ pc' = "fetch"
  /\ UNCHANGED <<phase, files, seen_hashes, sock, last_end_dt, logs,
                 batchVars, admitted, run_start_lines>>

SleepAndPoll == SleepAndPollWithin(MaxFetches)

\* KeyboardInterrupt: inside the try block of main (lines 237-253) it is
\* caught and tcp_sender.close() runs; before it, nothing catches it.
Interrupt ==
  /\ pc \in Running
  /\ IF phase = "steady"
     THEN ProcessEnds("exited", FALSE)
     ELSE ProcessEnds("killed", sock)

\* The program is started again: the files stay, the memory is fresh, and
\* tcp_sender = TcpLogSender() (line 114) has tried to connect once.
Restart ==
  /\ pc \in Stopped
  /\ pc' = "load"
  /\ sock' \in BOOLEAN
  /\ FreshMemory
  /\ UNCHANGED <<fetches, files>>

Next ==
  \/ MainStart
  \/ LoadFails
  \/ FetchAttempt
  \/ Dispatch
  \/ RotateAuditFile
  \/ EnterLoop
  \/ AdmitRecord
  \/ SkipDuplicate
  \/ WriteNewEvents
  \/ WriteFails
  \/ AdvanceWindow
  \/ SleepAndPoll
  \/ Interrupt
  \/ Restart

Spec == Init /\ [][Next]_vars

(* ------------------- the program in a calm environment ------------------ *)
\* A step in which the environment is calm: the forwarder accepts every
\* connection and every record, the clock is not set back, no file-system
\* call of a rotation raises and no rotation finds the backup older than one
\* hour, and every HTTP request is answered by a JSON list.
CalmStep ==
  /\ sent'.called => (sent'.connect_ok /\ sent'.sendall_ok)
  /\ ~clock_back'
  /\ ~rot'.raised
  /\ rot'.age <= BACKUP_MAX_AGE_SECS
  /\ last_outcome' \in {"none", "list"}

\* The first start of the program on an empty log directory.
InitCalm ==
  /\ Init
  /\ ~audit.exists
  /\ ~backup.exists

\* The steps of Next that are calm, with room for one more fetch_logs call.
NextCalm ==
  \/ MainStartWithin(MaxFetches + 1) /\ CalmStep
  \/ LoadFails /\ CalmStep
  \/ FetchAttempt /\ CalmStep
  \/ Dispatch /\ CalmStep
  \/ RotateAuditFile /\ CalmStep
  \/ EnterLoop /\ CalmStep
  \/ AdmitRecord /\ CalmStep
  \/ SkipDuplicate /\ CalmStep
  \/ WriteNewEvents /\ CalmStep
  \/ WriteFails /\ CalmStep
  \/ AdvanceWindow /\ CalmStep
  \/ SleepAndPollWithin(MaxFetches + 1) /\ CalmStep
  \/ Interrupt /\ CalmStep
  \/ Restart /\ CalmStep

SpecCalm == InitCalm /\ [][NextCalm]_vars

(* ------------------------------- claims ------------------------------- *)
\* The lines the current write_unique_logs call appended, as read back from
\* the audit file (the last Len(new_events) lines of the file).
WrittenBack ==
  LET lines == ReadLines(audit.data)
      n == Len(new_events)
  IN SubSeq(lines, Len(lines) - n + 1, Len(lines))

\* The records the current write_unique_logs call has admitted, in order.
BatchAdmitted == SubSeq(admitted, batch0.nadmitted + 1, Len(admitted))

\* write_unique_logs has returned for the current batch.
BatchDone == pc = "advance" /\ batch0.entered

\* C1 (fingerprint round trip): when write_unique_logs has appended its new
\* lines, each line read back from the audit file re-hashes, the way
\* load_existing_event_hashes hashes it, to the fingerprint computed when its
\* record was admitted.
C1_FingerprintRoundTrip ==
  BatchDone =>
    \A k \in 1 .. Len(new_events) :
      LineHash(WrittenBack[k]) = event_hash(BatchAdmitted[k])

\* C2 (at most once across restarts): as long as no rotation has happened, a
\* run admits no record whose line was in the audit file when the run
\* replayed it at startup.
C2_NoReadmissionAfterRestart ==
  ~rotated =>
    \A i \in 1 .. Len(admitted) : AuditLine(admitted[i]) \notin run_start_lines

\* C3 (idempotent admission), state part: a run admits no record twice, and
\* every admitted record's fingerprint is in the seen-set.
C3_AdmittedOnce ==
  /\ \A i, j \in 1 .. Len(admitted) : admitted[i] = admitted[j] => i = j
  /\ \A i \in 1 .. Len(admitted) : event_hash(admitted[i]) \in seen_hashes

\* C3, step part: while the process lives, a loop iteration on a record whose
\* fingerprint is in the seen-set queues no line, makes no send call, leaves
\* the audit file and the seen-set as they are, and the seen-set never shrinks.
C3_DuplicateStep ==
  /\ (pc = "dedup" /\ pc' = "dedup" /\ idx <= Len(logs.list)
        /\ event_hash(logs.list[idx]) \in seen_hashes)
       => /\ new_events' = new_events
          /\ fwd' = fwd
          /\ admitted' = admitted
          /\ audit' = audit
          /\ seen_hashes' = seen_hashes
  /\ (pc \in Running /\ pc' \in Running /\ pc # "load")
       => seen_hashes \subseteq seen_hashes'

\* C3 (idempotent admission): within one run the dedup check admits a record
\* at most once; every later occurrence, in the same batch or a later one, is
\* a duplicate that causes no append and no send.
C3_IdempotentAdmission == []C3_AdmittedOnce /\ [][C3_DuplicateStep]_vars

\* C3 witness: in the second batch of a run, a record admitted by the first
\* batch has occurred twice and was skipped both times.
C3_Witness ==
  /\ pc = "dedup"
  /\ ncalls = 2
  /\ Len(logs.list) = 2
  /\ idx = 3
  /\ logs.list[1] = logs.list[2]
  /\ logs.list[1] \in Range(admitted)
  /\ batch0.nadmitted = Len(admitted)
  /\ new_events = <<>>
  /\ fwd.calls = 0

\* The positions of a batch that hold the first occurrence of a record whose
\* fingerprint is not in `seen`.
NewPositions(batch, seen) ==
  {i \in 1 .. Len(batch) :
     /\ sha256(json_dumps(batch[i])) \notin seen
     /\ \A j \in 1 .. (i - 1) : batch[j] # batch[i]}

\* The audit-file text of the records at the positions `at` of the first n
\* records of a batch, in batch order.
RECURSIVE LinesAt(_, _, _)
LinesAt(batch, at, n) ==
  IF n = 0 THEN <<>>
  ELSE LinesAt(batch, at, n - 1)
         \o (IF n \in at THEN json_dumps(batch[n]) \o <<"\n">> ELSE <<>>)

\* The distinct fingerprints of a batch that are not in `seen`.
NewFingerprints(batch, seen) ==
  {sha256(json_dumps(batch[i])) : i \in 1 .. Len(batch)} \ seen

\* C4 (batch accounting): when write_unique_logs has returned, the number of
\* lines it appended to the audit file (after the earlier content), the growth
\* of the seen-set and the number of send calls all equal the number of
\* distinct fingerprints of the batch that were not in the seen-set before.
C4_BatchAccounting ==
  BatchDone =>
    LET n == Cardinality(NewFingerprints(logs.list, batch0.seen))
        before == batch0.audit.data
    IN /\ SubSeq(audit.data, 1, Len(before)) = before
       /\ Len(ReadLines(audit.data)) - Len(ReadLines(before)) = n
       /\ Cardinality(seen_hashes) - Cardinality(batch0.seen) = n
       /\ fwd.calls = n

\* C4 witness: seen-set empty, audit file absent, a batch [a, a]: one line,
\* seen-set size 1, one send.
C4_Witness ==
  /\ BatchDone
  /\ batch0.seen = {}
  /\ ~batch0.audit.exists
  /\ Len(logs.list) = 2
  /\ logs.list[1] = logs.list[2]
  /\ Len(ReadLines(audit.data)) = 1
  /\ Cardinality(seen_hashes) = 1
  /\ fwd.calls = 1

\* C5 (forwarding independence): when write_unique_logs has returned, the
\* audit file and the seen-set are the function of the batch, the earlier
\* file and the earlier seen-set that mentions no forwarder outcome; and when
\* no send call of the batch could connect, every record the batch admitted is
\* a line of the audit file and is in the seen-set.
C5_ForwardingIndependence ==
  BatchDone =>
    LET at == NewPositions(logs.list, batch0.seen)
    IN /\ audit.data = batch0.audit.data \o LinesAt(logs.list, at, Len(logs.list))
       /\ audit.exists = (batch0.audit.exists \/ at # {})
       /\ seen_hashes = batch0.seen \cup NewFingerprints(logs.list, batch0.seen)
       /\ fwd.down =>
            \A k \in 1 .. Len(BatchAdmitted) :
              /\ json_dumps(BatchAdmitted[k]) \o <<"\n">> \in Range(ReadLines(audit.data))
              /\ sha256(json_dumps(BatchAdmitted[k])) \in seen_hashes

\* C5 witness: a batch of two new records has been processed while no connect
\* attempt succeeded, and both lines are in the audit file.
C5_Witness ==
  /\ BatchDone
  /\ fwd.down
  /\ ~sock
  /\ fwd.calls = 2
  /\ Len(BatchAdmitted) = 2
  /\ Len(ReadLines(audit.data)) - Len(ReadLines(batch0.audit.data)) = 2

C7_Exhaustion ==
  /\ requests_made <= MAX_RETRIES
  /\ pc = "fetch" => ENABLED FetchAttempt
  /\ (pc = "fetched" /\ last_outcome \in {"timeout", "http_error"})
       => /\ logs = ResultNone
          /\ requests_made = MAX_RETRIES

\* C7, step part: every step of a fetch call in progress ends the call (or
\* the process) or makes one more request.
C7_Progress ==
  pc = "fetch" =>
    \/ pc' \in {"fetched"} \cup Stopped
    \/ pc' = "fetch" /\ requests_made' = requests_made + 1

\* C7 (retry exhaustion): a fetch call makes at most 5 HTTP attempts and
\* terminates (each step makes a request or ends the call, and requests are
\* bounded); when every attempt timed out or failed at the HTTP layer it
\* returns None, not a list.
C7_RetryExhaustion == []C7_Exhaustion /\ [][C7_Progress]_vars

\* C7 witness: a fetch call has returned None after five timeouts and the
\* full 62 seconds of backoff.
C7_Witness ==
  /\ pc = "fetched"
  /\ last_outcome = "timeout"
  /\ requests_made = 5
  /\ slept = 62
  /\ logs = ResultNone

\* C8 (malformed JSON is not retried): after an attempt that received an
\* unparseable body no further attempt is pending; the call has returned None
\* and has not slept after that attempt.
C8_MalformedJsonNotRetried ==
  /\ last_outcome = "json_error" => pc # "fetch"
  /\ (pc = "fetched" /\ last_outcome = "json_error")
       => /\ logs = ResultNone
          /\ slept = 2 ^ requests_made - 2

\* The rotation call that has just returned renamed the audit file it found
\* to the backup path.
Superseded ==
  /\ rot.audit.exists
  /\ ~audit.exists
  /\ backup = rot.audit

\* C9 (rotation threshold): after a rotation call in which no file-system
\* call raised and that found an audit file of at least 10 MiB, the audit path
\* is absent and the backup is exactly that file; a rotation call that found an
\* audit file below 10 MiB leaves it unchanged.
C9_RotationThreshold ==
  pc = "rotated" =>
    /\ (rot.audit.exists /\ Len(rot.audit.data) * BytesPerChar >= MAX_AUDIT_FILESIZE
          /\ ~rot.raised)
         => /\ ~audit.exists
            /\ backup = rot.audit
    /\ (rot.audit.exists /\ Len(rot.audit.data) * BytesPerChar < MAX_AUDIT_FILESIZE)
         => audit = rot.audit

\* C9 witness: a rotation call found a full audit file and a different
\* backup, and has replaced the backup by the audit file.
C9_Witness ==
  /\ pc = "rotated"
  /\ ~rot.raised
  /\ rot.audit.exists
  /\ Len(rot.audit.data) * BytesPerChar >= MAX_AUDIT_FILESIZE
  /\ rot.backup.exists
  /\ rot.backup # rot.audit
  /\ ~audit.exists
  /\ backup = rot.audit

\* What C10 says of a rotation call that found a backup: older than one hour,
\* it is gone (deleted, or replaced by the rotated audit file); otherwise it is
\* kept unless the rotated audit file replaced it.
BackupExpiryHolds ==
  /\ rot.age > BACKUP_MAX_AGE_SECS => (~backup.exists \/ Superseded)
  /\ rot.age <= BACKUP_MAX_AGE_SECS => (backup = rot.backup \/ Superseded)

C11_LoopResilience == pc # "crashed"

\* C12 (clean termination): whenever the process has ended because of the
\* external interrupt, whether the interrupt was caught by main or not, the
\* forwarder's connection is absent.
C12_CleanTermination == pc \in {"exited", "killed"} => ~sock

\* C13 (persist before forward): when tcp_sender.send has been called with a
\* record, that record's line was in the audit file at the moment of the call.
C13_PersistBeforeForward == sent.called => sent.in_file

\* C14, state part: write_unique_logs runs only on a list; in a cycle whose
\* fetch returned None it has not been entered and no send call was made.
C14_NoProcessing ==
  /\ pc \in {"rotate", "rotated", "dedup"} => logs.ok
  /\ (pc = "advance" /\ ~logs.ok)
       => /\ ~batch0.entered
          /\ fwd.calls = 0
          /\ ~sent.called

\* C14, step part: while the process lives, no step of a fetch call, and no
\* step of a cycle whose fetch returned None, changes the seen-set, the audit
\* file, the backup file or the forwarder's connection; such a cycle goes
\* straight to the window advance, which sets last_end_dt to the cycle's
\* window end, and the next fetch call starts its window there.
C14_FailedFetchStep ==
  /\ (pc \in {"fetch", "fetched", "advance"} /\ pc' \in Running
        /\ (pc = "fetch" \/ ~logs.ok))
       => /\ UNCHANGED <<seen_hashes, audit, backup, sock, fwd, end_dt>>
          /\ (pc = "fetched" => pc' = "advance" /\ logs' = logs)
          /\ (pc = "advance" => pc' = "sleep" /\ last_end_dt' = end_dt)
  /\ (pc = "sleep" /\ pc' = "fetch") => start_dt' = last_end_dt

\* C14 (failed fetch frame): in a cycle, initial or steady, whose fetch
\* returns None, the seen-set, the audit file, the backup file and the
\* forwarder's connection stay as they are and no send is made, and last_end_dt
\* still advances to the cycle's window end, where the next window starts.
C14_FailedFetchFrame == []C14_NoProcessing /\ [][C14_FailedFetchStep]_vars

\* C14 witness: the second fetch call of a run that has admitted records and
\* holds a connection returned None after five timeouts, and the cycle is at
\* its window advance with last_end_dt still at the previous window's end.
C14_Witness ==
  /\ pc = "advance"
  /\ ~logs.ok
  /\ ncalls = 2
  /\ phase = "steady"
  /\ Len(admitted) = 2
  /\ audit.exists
  /\ sock
  /\ last_end_dt = prev_end
  /\ end_dt # last_end_dt

\* C15 (forwarder reconnect protocol): a send call that has just returned
\* made at most one connect attempt and at most one transmit attempt; it made
\* a connect attempt exactly when it found no connection, and transmitted
\* exactly when it had or obtained one; when the connect attempt failed nothing
\* was transmitted; after a failed transmit the connection is absent, so that
\* the next call connects afresh; and no record is handed to send twice (one
\* call per admitted record, the admitted records being distinct).
C15_ReconnectProtocol ==
  /\ sent.called =>
       /\ sent.connects <= 1
       /\ sent.transmits <= 1
       /\ sent.connects = (IF sent.had_sock THEN 0 ELSE 1)
       /\ sent.transmits = (IF sent.had_sock \/ sent.connect_ok THEN 1 ELSE 0)
       /\ (~sent.had_sock /\ ~sent.connect_ok) => (sent.transmits = 0 /\ ~sock)
       /\ (sent.transmits = 1 /\ ~sent.sendall_ok) => ~sock
       /\ (sent.transmits = 1 /\ sent.sendall_ok) => sock
  /\ batch0.entered =>
       /\ fwd.calls = Len(BatchAdmitted)
       /\ \A i, j \in 1 .. Len(admitted) : admitted[i] = admitted[j] => i = j

\* C15 witness: the second send call of a batch found no connection,
\* connected, and its transmit failed: one connect attempt, one transmit
\* attempt, and the connection is absent again.
C15_Witness ==
  /\ pc = "dedup"
  /\ fwd.calls = 2
  /\ sent.called
  /\ ~sent.had_sock
  /\ sent.connect_ok
  /\ ~sent.sendall_ok
  /\ sent.connects = 1
  /\ sent.transmits = 1
  /\ ~sock

\* C16 (empty batches are processed like any other): in every cycle, initial
\* or steady, whose fetch returned a list, the empty list included,
\* write_unique_logs has been entered, and with it the rotation check has run,
\* by the time the cycle advances its window.
C16_EmptyBatchRotation == (pc = "advance" /\ logs.ok) => batch0.entered

\* 2^1 + ... + 2^n
RECURSIVE PowerSum(_)
PowerSum(n) == IF n <= 0 THEN 0 ELSE 2 ^ n + PowerSum(n - 1)

\* C17 (backoff schedule): a fetch call about to make attempt k + 1 has slept
\* 2^j after each failed attempt j <= k, that is 2 + ... + 2^k in all; no call
\* sleeps more than 2 + 4 + 8 + 16 + 32 = 62 seconds; and a call that returned
\* a list, or returned None on an unparseable body, at attempt k has slept
\* exactly the sum of 2^j for j < k.
C17_BackoffSchedule ==
  /\ slept <= 2 + 4 + 8 + 16 + 32
  /\ pc = "fetch" =>
       /\ attempt = requests_made + 1
       /\ slept = PowerSum(attempt - 1)
  /\ (pc = "fetched" /\ (logs.ok \/ last_outcome = "json_error"))
       => slept = PowerSum(requests_made - 1)

\* C17 witness: a fetch call returned a list at its fourth attempt, having
\* slept 2 + 4 + 8 seconds after the three failed ones.
C17_Witness ==
  /\ pc = "fetched"
  /\ logs.ok
  /\ last_outcome = "list"
  /\ requests_made = 4
  /\ slept = 14

\* The lines of a file, as a set.
LinesOf(f) == Range(ReadLines(f.data))

\* C18 (rotation is best-effort): a rotation call in which a file-system
\* call raised has returned, every line of the audit file it found is in the
\* audit file or in the backup, and the dedup loop can be entered; and when
\* write_unique_logs returns after such a rotation call, the audit file is
\* the file the loop found followed by the lines of the records the batch
\* admitted, which are the records of the batch with a new fingerprint, each
\* handed to send once.
C18_RotationBestEffort ==
  /\ (pc = "rotated" /\ rot.raised)
       => /\ LinesOf(rot.audit) \subseteq (LinesOf(audit) \cup LinesOf(backup))
          /\ ENABLED EnterLoop
  /\ (pc \in {"dedup", "advance"} /\ batch0.raised)
       => LinesOf(batch0.audit) \subseteq LinesOf(audit)
  /\ (BatchDone /\ batch0.raised)
       => /\ audit.data = batch0.audit.data
                \o Concat([k \in 1 .. Len(BatchAdmitted) |-> AuditLine(BatchAdmitted[k])])
          /\ {event_hash(r) : r \in Range(BatchAdmitted)}
               = NewFingerprints(logs.list, batch0.seen)
          /\ fwd.calls = Len(BatchAdmitted)

\* C18 witness: the age check of the backup raised, and write_unique_logs has
\* nevertheless returned with both records of its batch appended to the audit
\* file and handed to send, the backup still in place.
C18_Witness ==
  /\ BatchDone
  /\ batch0.raised
  /\ Len(BatchAdmitted) = 2
  /\ fwd.calls = 2
  /\ backup.exists
  /\ Len(ReadLines(audit.data)) = Len(ReadLines(batch0.audit.data)) + 2

\* C19, the part about a run without restart: no record the run has admitted
\* is new to the dedup check again, whatever has become of the audit file
\* since (renamed to the backup or not), and none has been admitted twice.
C19_NoReadmissionWithoutRestart ==
  \A i \in 1 .. Len(admitted) :
    /\ ~IsNew(admitted[i], seen_hashes)
    /\ (pc = "dedup" /\ idx <= Len(logs.list) /\ logs.list[idx] = admitted[i])
         => ~ENABLED AdmitRecord
    /\ \A j \in 1 .. Len(admitted) : admitted[j] = admitted[i] => j = i

\* C19 (restart after rotation can re-admit), the reachable run: on a log
\* directory that was empty at first, a rotation has renamed the audit file to
\* the backup, which holds the line of record 1 and has not been found
\* expired; a process started afterwards found no audit file to replay, and
\* its initial batch has admitted record 1 as new, appended its line and
\* handed it to send.
C19_Witness ==
  /\ BatchDone
  /\ rotated
  /\ ncalls = 1
  /\ run_start_lines = {}
  /\ batch0.seen = {}
  /\ AuditLine(1) \in Range(ReadLines(backup.data))
  /\ 1 \in Range(BatchAdmitted)
  /\ AuditLine(1) \in Range(ReadLines(audit.data))
  /\ fwd.calls = Len(BatchAdmitted)
  /\ sock

\* C19, the run without restart, as a reachable case: the audit file that
\* held the lines of the run's admitted records has been renamed to the
\* backup, and the second batch of the same run has skipped record 1.
C19_Witness_SameRun ==
  /\ pc = "dedup"
  /\ ncalls = 2
  /\ rotated
  /\ ~audit.exists
  /\ AuditLine(1) \in Range(ReadLines(backup.data))
  /\ Len(admitted) = 2
  /\ admitted[1] = 1
  /\ logs.list = <<1>>
  /\ idx = 2
  /\ new_events = <<>>
  /\ fwd.calls = 0

\* C20, at the return of write_unique_logs: the lines the call appended to
\* the audit file are the lines of the records it handed to send, in the same
\* order, which is the order of first occurrence in the batch of the records
\* whose fingerprint was new; and each such record's fingerprint is in the
\* seen-set.
C20_AtReturn ==
  BatchDone =>
    LET at == NewPositions(logs.list, batch0.seen)
        appended == SubSeq(audit.data, Len(batch0.audit.data) + 1, Len(audit.data))
    IN /\ fwd.calls = Len(BatchAdmitted)
       /\ ReadLines(appended) = [k \in 1 .. Len(BatchAdmitted) |-> AuditLine(BatchAdmitted[k])]
       /\ appended = LinesAt(logs.list, at, Len(logs.list))
       /\ \A k \in 1 .. Len(BatchAdmitted) : event_hash(BatchAdmitted[k]) \in seen_hashes

\* C20, at the end of the process: a run that ends has appended the line of
\* every record it handed to send (no line is still waiting in new_events).
C20_AtProcessEnd == (pc = "dedup" /\ pc' \in Stopped) => new_events = <<>>

\* C20 (order preservation): within one process run the records handed to
\* send are exactly the lines the run appends to the audit file, in the same
\* order, the order of first occurrence in the fetched batches, and every
\* appended line's fingerprint is in the seen-set.
C20_OrderPreservation == []C20_AtReturn /\ [][C20_AtProcessEnd]_vars

====
